---------------------------- MODULE Spec2Model ----------------------------
(***************************************************************************)
(* Model of the optimization driver of mma4py (src/optimizer.cpp): the     *)
(* class Optimizer, its aliased numpy buffers and PETSc vector bindings,   *)
(* and the loop of Optimizer::optimize.                                    *)
(*                                                                         *)
(* Numbers are integers.  The move limit 0.2 is the exact fraction         *)
(* 1/MovelimDen; the bounds the evaluator supplies are multiples of        *)
(* MovelimDen, so that movelim * (ub - lb) is computed without rounding.   *)
(***************************************************************************)
EXTENDS Integers, Sequences, FiniteSets, TLC

(***************************************************************************)
(* Bounds of the model.                                                    *)
(***************************************************************************)
MaxVarsLocal == 2      \* largest local number of design variables
MaxCons == 2           \* largest number of constraints
MaxIter == 2           \* largest niter of a call of the general scenarios
MaxCalls == 2          \* largest number of optimize calls of one caller
MaxLogIter == 11       \* largest niter of the single long call (log scenarios)
NRanks == 2            \* number of ranks of the communicator (rank scenarios)

(***************************************************************************)
(* Program constants.                                                      *)
(***************************************************************************)
MovelimDen == 5        \* double movelim = 0.2, i.e. 1/5
HeaderPeriod == 10     \* if (iter % 10 == 0) print the header

(***************************************************************************)
(* Value sets the environment (evaluator, solver, allocator) draws from.   *)
(***************************************************************************)
Garbage == 7                          \* a non-zero content of fresh memory
UninitVals == {0, Garbage}            \* what unwritten memory may hold
XSeq == <<0, 5, 8>>                   \* design values
BoundSeq == <<<<0, MovelimDen>>, <<MovelimDen, MovelimDen>>>>   \* (lb, ub) pairs
ConSeq == <<2, -1, -2, 0>>            \* constraint values
GradSeq == <<1, 2, 3>>                \* gradient entries
ObjVals == {1}                        \* objective values (only logged, never tested)
KKTPairs == {<<2, 1>>}                \* (kkterr_l2, kkterr_linf)
Undef == -99                          \* a local that is out of scope

VARIABLES
    nvars_l, ncons,       \* prob->get_num_vars_local(), prob->get_num_cons()
    fp,                   \* the log handle: "open" or "null"
    caller,               \* how many calls the caller makes, and its largest niter
    mem,                  \* contents of the numpy buffers and of owned Vec storage
    x, g, lb, ub, gcon,   \* the Vec bindings created by the constructor
    lb_temp, ub_temp,     \* the temporary Vecs of the running call
    live,                 \* owned Vecs of the running call that are allocated
    leaked,               \* owned Vecs of earlier calls that were never destroyed
    mma,                  \* the MMA object of the running call
    pc, iter, niter,      \* position in optimize, loop counter, argument
    obj,                  \* Optimizer::obj
    kkterr_l2, kkterr_linf, x_l1, infeas,   \* locals of the loop body
    ierr_mma,             \* code returned (and dropped) by Update / KKTresidual
    row,                  \* the data line PetscFPrintf formatted, until fflush
    log,                  \* lines of the log file, by kind and iteration index
    mark,                 \* length of the log when optimize was entered
    ret,                  \* how the last optimize call ended
    view,                 \* the array handle returned by getOptimizedDesign
    ncalls,               \* calls made to the evaluator and solver by this call
    ncall,                \* number of optimize calls made so far
    written,              \* last design produced by the evaluator or the solver
    updated,              \* last design produced by the solver's Update
    evalAt,               \* design passed to evalObjCon in this iteration
    x_before,             \* contents of the design buffer before the last write
    rank,                 \* rank scenarios: each rank's position, iter and result
    dtor,                 \* position of ~Optimizer: step 0 before it runs
    alive,                \* the Vec bindings that have not been destroyed
    destroyed,            \* how often VecDestroy destroyed each binding
    buffers               \* the numpy buffers that are allocated

vars == <<nvars_l, ncons, fp, caller, mem, x, g, lb, ub, gcon, lb_temp, ub_temp,
          live, leaked, mma, pc, iter, niter, obj, kkterr_l2, kkterr_linf, x_l1,
          infeas, ierr_mma, row, log, mark, ret, view, ncalls, ncall, written, updated,
          evalAt, x_before, rank, dtor, alive, destroyed, buffers>>

-----------------------------------------------------------------------------
(***************************************************************************)
(* Helpers.                                                                *)
(***************************************************************************)
Max(a, b) == IF a >= b THEN a ELSE b
Min(a, b) == IF a <= b THEN a ELSE b
Abs(a) == IF a >= 0 THEN a ELSE -a
Const(n, v) == [i \in 1..n |-> v]

(***************************************************************************)
(* The vectors of length n the environment produces: the values of `seq`   *)
(* laid out cyclically from each starting point, so that every element     *)
(* takes every value and neighbouring elements differ.                     *)
(***************************************************************************)
Rot(seq, n, k) == [i \in 1..n |-> seq[((k + i) % Len(seq)) + 1]]
Vectors(seq, n) == {Rot(seq, n, k) : k \in 0..(Len(seq) - 1)}

RECURSIVE SumAbs(_)
SumAbs(s) == IF Len(s) = 0 THEN 0 ELSE Abs(Head(s)) + SumAbs(Tail(s))

NoVec == [array |-> "none", off |-> 0, n |-> 0]

(***************************************************************************)
(* Lines 48-54 and 57-74: the numpy buffers the constructor allocates and  *)
(* the Vec bindings it creates: x, g, lb, ub and one per constraint row.   *)
(***************************************************************************)
Buffers == {"np_x", "np_lb", "np_ub", "np_g", "np_cons", "np_gcon"}
NotDestroyed == [step |-> 0, i |-> 0]
Bindings(nc) ==
    {[vec |-> v, i |-> 0] : v \in {"x", "g", "lb", "ub"}}
        \cup {[vec |-> "gcon", i |-> k] : k \in 1..nc}

(***************************************************************************)
(* allocate_petsc_vec: a Vec with storage of its own (VecCreate,           *)
(* VecSetSizes, VecSetType), named by the local that holds it.             *)
(***************************************************************************)
allocate_petsc_vec(name, lsize) == [array |-> name, off |-> 0, n |-> lsize]

(***************************************************************************)
(* bind_petsc_vec_to_array: a Vec whose storage is the lsize elements of   *)
(* the buffer `array` that start at `off` (VecPlaceArray on data).         *)
(***************************************************************************)
bind_petsc_vec_to_array(lsize, array, off) ==
    [array |-> array, off |-> off, n |-> lsize]

(***************************************************************************)
(* VecGetArray / VecRestoreArray: read and write a Vec's local storage.    *)
(***************************************************************************)
VecGetArray(m, v) == [i \in 1..v.n |-> m[v.array][v.off + i]]
VecSetArray(m, v, vals) ==
    [m EXCEPT ![v.array] =
        [j \in DOMAIN @ |-> IF j > v.off /\ j <= v.off + v.n
                            THEN vals[j - v.off] ELSE @[j]]]

(***************************************************************************)
(* Writing a numpy array through its handle (what the evaluator does).     *)
(***************************************************************************)
ArrayFill(m, array, vals) == [m EXCEPT ![array] = vals]

(***************************************************************************)
(* Optimizer::getOptimizedDesign: the handle np_x itself.                  *)
(***************************************************************************)
getOptimizedDesign_other == "np_g"
getOptimizedDesign == "np_x"

(***************************************************************************)
(* MMA::SetOuterMovelimit(xmin, xmax, movlim, x, xminnew, xmaxnew).        *)
(***************************************************************************)
Movelim(range) == range \div MovelimDen
OuterLower(xmin, xmax, xv) ==
    [i \in DOMAIN xv |-> Max(xmin[i], xv[i] - Movelim(xmax[i] - xmin[i]))]
OuterUpper(xmin, xmax, xv) ==
    [i \in DOMAIN xv |-> Min(xmax[i], xv[i] + Movelim(xmax[i] - xmin[i]))]

(***************************************************************************)
(* Lines 153-159: the maximum constraint violation.                        *)
(***************************************************************************)
RECURSIVE InfeasLoop(_, _, _)
InfeasLoop(con_vals, i, acc) ==
    IF i > Len(con_vals) THEN acc
    ELSE InfeasLoop(con_vals, i + 1,
                    IF con_vals[i] > acc THEN con_vals[i] ELSE acc)
MaxViolation_from_first(con_vals) ==
    IF Len(con_vals) = 0 THEN 0 ELSE InfeasLoop(con_vals, 2, con_vals[1])
MaxViolation(con_vals) == InfeasLoop(con_vals, 1, 0)


-----------------------------------------------------------------------------
(***************************************************************************)
(* The state after construction (Optimizer::Optimizer).                    *)
(*                                                                         *)
(* ndarray_t(n) allocates without initializing, and obj is not             *)
(* initialized: each holds zeros or garbage.  fopen may fail and its       *)
(* result is not checked.                                                  *)
(***************************************************************************)
NoCalls == [getVarsAndBounds |-> 0, evalObjCon |-> 0, evalObjConGrad |-> 0,
            SetOuterMovelimit |-> 0, Update |-> 0, KKTresidual |-> 0]
NoRow == [iter |-> Undef, obj |-> Undef, kkterr_l2 |-> Undef,
          kkterr_linf |-> Undef, x_l1 |-> Undef, infeas |-> Undef]

(* Lines 69-73: offset is 0 for the first row and grows by nvars_l per    *)
(* row; rows are numbered from 1 here.                                     *)
RowOffset_unit_stride(i, nvl) == i - 1
RowOffset(i, nvl) == (i - 1) * nvl

(* A rank of the rank scenarios, before its process constructs its         *)
(* Optimizer: where it is, its iter, how its call ended, whether it has    *)
(* opened the log for writing, the records it wrote, the Updates it ran.   *)
NewRank == [pc |-> "new", iter |-> 0, ret |-> "none", opened |-> FALSE,
            writes |-> 0, updates |-> 0]

Construct(nv, nc, handle, u, calls, maxiter, ranks) ==
    /\ nvars_l = nv
    /\ ncons = nc
    /\ fp = handle
    /\ caller = [calls |-> calls, niter |-> maxiter]
    /\ mem = [np_x |-> Const(nv, u), np_lb |-> Const(nv, u),
              np_ub |-> Const(nv, u), np_g |-> Const(nv, u),
              np_cons |-> Const(nc, u), np_gcon |-> Const(nc * nv, u),
              lb_temp |-> <<>>, ub_temp |-> <<>>]
    /\ x = bind_petsc_vec_to_array(nv, "np_x", 0)
    /\ g = bind_petsc_vec_to_array(nv, "np_g", 0)
    /\ lb = bind_petsc_vec_to_array(nv, "np_lb", 0)
    /\ ub = bind_petsc_vec_to_array(nv, "np_ub", 0)
    /\ gcon = [i \in 1..nc |->
                  bind_petsc_vec_to_array(nv, "np_gcon", RowOffset(i, nv))]
    /\ lb_temp = NoVec
    /\ ub_temp = NoVec
    /\ live = {}
    /\ leaked = 0
    /\ mma = "none"
    /\ pc = "idle"
    /\ iter = 0
    /\ niter = 0
    /\ obj = u
    /\ kkterr_l2 = Undef
    /\ kkterr_linf = Undef
    /\ x_l1 = Undef
    /\ infeas = Undef
    /\ ierr_mma = "ok"
    /\ row = NoRow
    /\ log = <<>>
    /\ mark = 0
    /\ ret = "none"
    /\ view = "none"
    /\ ncalls = NoCalls
    /\ ncall = 0
    /\ written = [by |-> "none", val |-> <<>>]
    /\ updated = <<>>
    /\ evalAt = <<>>
    /\ x_before = <<>>
    /\ rank = [r \in ranks |-> NewRank]
    /\ dtor = NotDestroyed
    /\ alive = Bindings(nc)
    /\ destroyed = [b \in Bindings(nc) |-> 0]
    /\ buffers = Buffers

(***************************************************************************)
(* The callers of the general scenarios: up to MaxCalls calls of optimize, *)
(* each with niter in 0..MaxIter, on the smallest problem (one variable,   *)
(* no constraint) or on the largest.                                       *)
(***************************************************************************)
Dims == {<<1, 0>>, <<MaxVarsLocal, MaxCons>>}

Init ==
    \E d \in Dims, handle \in {"open", "null"}, u \in UninitVals :
        Construct(d[1], d[2], handle, u, MaxCalls, MaxIter, {})

-----------------------------------------------------------------------------
(***************************************************************************)
(* Leaving optimize.  The locals go out of scope: the MMA object is        *)
(* destroyed by its destructor, while a Vec that was not passed to         *)
(* VecDestroy stays allocated with nothing referring to it.  The aliased   *)
(* buffers are left as they are.                                           *)
(***************************************************************************)
Unwind_restore(m) == [m EXCEPT !.lb_temp = <<>>, !.ub_temp = <<>>, !.np_x = m.np_lb]
Unwind(m) == [m EXCEPT !.lb_temp = <<>>, !.ub_temp = <<>>]

Leave(status) ==
    /\ pc' = "idle"
    /\ ret' = status
    /\ mma' = "none"
    /\ leaked' = leaked + Cardinality(live)
    /\ live' = {}
    /\ lb_temp' = NoVec
    /\ ub_temp' = NoVec
    /\ mem' = Unwind(mem)
    /\ iter' = 0
    /\ kkterr_l2' = Undef
    /\ kkterr_linf' = Undef
    /\ x_l1' = Undef
    /\ infeas' = Undef
    /\ row' = NoRow
    /\ evalAt' = <<>>

members == <<nvars_l, ncons, caller, x, g, lb, ub, gcon, rank>>
fixed == <<members, fp, dtor, alive, destroyed, buffers>>
ghosts == <<written, updated, x_before, mark, ncalls, ncall, ierr_mma>>
loopLocals == <<kkterr_l2, kkterr_linf, x_l1, infeas, row, evalAt>>
temps == <<lb_temp, ub_temp, live, leaked>>

(* A PetscCall whose callee returned an error: return ierr. *)
PetscCallFails ==
    /\ Leave("error")
    /\ UNCHANGED <<fixed, ghosts, niter, obj, log, view>>

(* An exception thrown by the evaluator leaves optimize by unwinding. *)
Throws ==
    /\ Leave("exception")
    /\ UNCHANGED <<fixed, ghosts, niter, obj, log, view>>

(***************************************************************************)
(* Lines 95-102: the caller invokes optimize(niter).  A caller stops at    *)
(* the first call that fails.                                              *)
(***************************************************************************)
OptimizeBegin ==
    /\ pc = "idle"
    /\ dtor = NotDestroyed
    /\ ret \in {"none", "ok"}
    /\ ncall < caller.calls
    /\ niter' \in 0..caller.niter
    /\ pc' = "getVarsAndBounds"
    /\ ret' = "running"
    /\ ncalls' = NoCalls
    /\ ierr_mma' = "ok"
    /\ mark' = Len(log)
    /\ ncall' = ncall + 1
    /\ UNCHANGED <<fixed, mem, temps, mma, iter, obj, loopLocals, log, view, written,
                   updated, x_before>>

(***************************************************************************)
(* Line 105: prob->getVarsAndBounds(np_x, np_lb, np_ub) fills the three    *)
(* arrays in place.                                                        *)
(***************************************************************************)
getVarsAndBounds_keep(m, xs, bs) ==
    ArrayFill(ArrayFill(m, "np_lb", [i \in DOMAIN bs |-> bs[i][1]]),
              "np_ub", [i \in DOMAIN bs |-> bs[i][2]])
getVarsAndBounds(m, xs, bs) ==
    ArrayFill(ArrayFill(ArrayFill(m, "np_x", xs),
                        "np_lb", [i \in DOMAIN bs |-> bs[i][1]]),
              "np_ub", [i \in DOMAIN bs |-> bs[i][2]])

GetVarsAndBounds ==
    /\ pc = "getVarsAndBounds"
    /\ \/ /\ \E xs \in Vectors(XSeq, nvars_l), bs \in Vectors(BoundSeq, nvars_l) :
                /\ mem' = getVarsAndBounds(mem, xs, bs)
                /\ written' = [by |-> "getVarsAndBounds", val |-> xs]
          /\ x_before' = mem.np_x
          /\ ncalls' = [ncalls EXCEPT !.getVarsAndBounds = @ + 1]
          /\ pc' = "alloc_lb"
          /\ UNCHANGED <<fixed, temps, mma, iter, niter, obj, loopLocals,
                         ierr_mma, log, mark, ret, view, ncall, updated>>
       \/ Throws

(***************************************************************************)
(* Lines 109-110: allocate lb_temp, then ub_temp.                          *)
(***************************************************************************)
AllocateLbTemp ==
    /\ pc = "alloc_lb"
    /\ \/ /\ lb_temp' = allocate_petsc_vec("lb_temp", nvars_l)
          /\ mem' = [mem EXCEPT !.lb_temp = Const(nvars_l, 0)]
          /\ live' = live \cup {"lb_temp"}
          /\ pc' = "alloc_ub"
          /\ UNCHANGED <<fixed, ghosts, ub_temp, leaked, mma, iter, niter,
                         obj, loopLocals, log, ret, view>>
       \/ PetscCallFails

AllocateUbTemp ==
    /\ pc = "alloc_ub"
    /\ \/ /\ ub_temp' = allocate_petsc_vec("ub_temp", nvars_l)
          /\ mem' = [mem EXCEPT !.ub_temp = Const(nvars_l, 0)]
          /\ live' = live \cup {"ub_temp"}
          /\ pc' = "init_bounds"
          /\ UNCHANGED <<fixed, ghosts, lb_temp, leaked, mma, iter, niter,
                         obj, loopLocals, log, ret, view>>
       \/ PetscCallFails

(***************************************************************************)
(* Lines 113-125: copy lb and ub into the temporary bounds.                *)
(***************************************************************************)
InitTempBounds ==
    /\ pc = "init_bounds"
    /\ \/ /\ mem' = VecSetArray(VecSetArray(mem, lb_temp, mem.np_lb),
                                ub_temp, mem.np_ub)
          /\ pc' = "mma"
          /\ UNCHANGED <<fixed, ghosts, temps, mma, iter, niter, obj,
                         loopLocals, log, ret, view>>
       \/ PetscCallFails

(***************************************************************************)
(* Lines 128-131: MMA mma(nvars, ncons, x); int iter = 0.                  *)
(***************************************************************************)
ConstructMMA ==
    /\ pc = "mma"
    /\ mma' = "constructed"
    /\ iter' = 0
    /\ pc' = "loop"
    /\ UNCHANGED <<fixed, ghosts, mem, temps, niter, obj, loopLocals,
                   log, ret, view>>

(***************************************************************************)
(* Line 132: while (iter < niter).                                         *)
(***************************************************************************)
LoopCond_inclusive(it, n) == it <= n
LoopCond_skip_last(it, n) == it + 1 < n
LoopCond(it, n) == it < n

LoopTest ==
    /\ pc = "loop"
    /\ pc' = IF LoopCond(iter, niter) THEN "evalObjCon" ELSE "destroy_lb"
    /\ UNCHANGED <<fixed, ghosts, mem, temps, mma, iter, niter, obj,
                   loopLocals, log, ret, view>>

(***************************************************************************)
(* Line 134: obj = prob->evalObjCon(np_x, np_cons).                        *)
(***************************************************************************)
EvalObjCon ==
    /\ pc = "evalObjCon"
    /\ \/ /\ \E o \in ObjVals, cs \in Vectors(ConSeq, ncons) :
                /\ obj' = o
                /\ mem' = ArrayFill(mem, "np_cons", cs)
          /\ evalAt' = mem.np_x
          /\ ncalls' = [ncalls EXCEPT !.evalObjCon = @ + 1]
          /\ pc' = "evalObjConGrad"
          /\ UNCHANGED <<fixed, temps, mma, iter, niter, kkterr_l2,
                         kkterr_linf, x_l1, infeas, row, ierr_mma, log, mark, ret,
                         view, written, updated, x_before, ncall>>
       \/ Throws

(***************************************************************************)
(* Line 135: prob->evalObjConGrad(np_x, np_g, np_gcon).                    *)
(***************************************************************************)
EvalObjConGrad ==
    /\ pc = "evalObjConGrad"
    /\ \/ /\ \E gs \in {Rot(GradSeq, nvars_l, 0)},
                gc \in {Rot(GradSeq, ncons * nvars_l, 0)} :
                mem' = ArrayFill(ArrayFill(mem, "np_g", gs), "np_gcon", gc)
          /\ ncalls' = [ncalls EXCEPT !.evalObjConGrad = @ + 1]
          /\ pc' = "SetOuterMovelimit"
          /\ UNCHANGED <<fixed, temps, mma, iter, niter, obj, loopLocals,
                         ierr_mma, log, mark, ret, view, written, updated, x_before,
                         ncall>>
       \/ Throws

(***************************************************************************)
(* Line 138: PetscCall(mma.SetOuterMovelimit(lb, ub, movelim, x, lb_temp,  *)
(* ub_temp)).                                                              *)
(***************************************************************************)
SetOuterMovelimit(m, xmin, xmax, xv, xminnew, xmaxnew) ==
    LET lo == VecGetArray(m, xmin)
        hi == VecGetArray(m, xmax)
        xs == VecGetArray(m, xv)
    IN  VecSetArray(VecSetArray(m, xminnew, OuterLower(lo, hi, xs)),
                    xmaxnew, OuterUpper(lo, hi, xs))

(* The call of line 138, with the arguments in the order the code gives. *)
CallSetOuterMovelimit_swapped(m) == SetOuterMovelimit(m, lb, ub, x, ub_temp, lb_temp)
CallSetOuterMovelimit_skipped(m) == m
CallSetOuterMovelimit_around_g(m) == SetOuterMovelimit(m, lb, ub, g, lb_temp, ub_temp)
CallSetOuterMovelimit(m) == SetOuterMovelimit(m, lb, ub, x, lb_temp, ub_temp)

SetMoveLimits ==
    /\ pc = "SetOuterMovelimit"
    /\ \/ /\ mem' = CallSetOuterMovelimit(mem)
          /\ ncalls' = [ncalls EXCEPT !.SetOuterMovelimit = @ + 1]
          /\ pc' = "Update"
          /\ UNCHANGED <<fixed, temps, mma, iter, niter, obj, loopLocals,
                         ierr_mma, log, mark, ret, view, written, updated, x_before,
                         ncall>>
       \/ PetscCallFails

(***************************************************************************)
(* Line 141: mma.Update(x, g, cons, gcon, lb_temp, ub_temp) writes the     *)
(* next iterate into x.  The code it returns is not looked at: the loop    *)
(* goes on whether Update succeeded or not.  A failing Update may or may   *)
(* not have written x.                                                     *)
(***************************************************************************)
Update ==
    /\ pc = "Update"
    /\ \E xs \in Vectors(XSeq, nvars_l), outcome \in {"ok", "failed", "failed_unwritten"} :
          /\ mem' = IF outcome = "failed_unwritten" THEN mem
                    ELSE VecSetArray(mem, x, xs)
          /\ written' = IF outcome = "failed_unwritten" THEN written
                        ELSE [by |-> "Update", val |-> xs]
          /\ updated' = IF outcome = "failed_unwritten" THEN updated ELSE xs
          /\ x_before' = IF outcome = "failed_unwritten" THEN x_before
                         ELSE VecGetArray(mem, x)
          /\ ierr_mma' = IF outcome = "ok" THEN ierr_mma ELSE "error"
    /\ ncalls' = [ncalls EXCEPT !.Update = @ + 1]
    /\ pc' = "KKTresidual"
    /\ UNCHANGED <<fixed, temps, mma, iter, niter, obj, loopLocals, log,
                   mark, ret, view, ncall>>

(***************************************************************************)
(* Lines 144-146: mma.KKTresidual(..., &kkterr_l2, &kkterr_linf).  The     *)
(* code it returns is not looked at; when it fails the two locals keep     *)
(* whatever the stack held.                                                *)
(***************************************************************************)
KKTresidual ==
    /\ pc = "KKTresidual"
    /\ \/ /\ \E k \in KKTPairs : kkterr_l2' = k[1] /\ kkterr_linf' = k[2]
          /\ UNCHANGED ierr_mma
       \/ /\ \E u \in UninitVals : kkterr_l2' = u /\ kkterr_linf' = u
          /\ ierr_mma' = "error"
    /\ ncalls' = [ncalls EXCEPT !.KKTresidual = @ + 1]
    /\ pc' = "VecNorm"
    /\ UNCHANGED <<fixed, mem, temps, mma, iter, niter, obj, x_l1, infeas,
                   row, evalAt, log, mark, ret, view, written, updated, x_before, ncall>>

(***************************************************************************)
(* Lines 149-150: PetscCall(VecNorm(x, NORM_1, &x_l1)).                    *)
(***************************************************************************)
VecNorm1_before_update(m, v) == SumAbs(evalAt)
VecNorm1(m, v) == SumAbs(VecGetArray(m, v))

VecNorm ==
    /\ pc = "VecNorm"
    /\ \/ /\ x_l1' = VecNorm1(mem, x)
          /\ pc' = "infeas"
          /\ UNCHANGED <<fixed, ghosts, mem, temps, mma, iter, niter, obj,
                         kkterr_l2, kkterr_linf, infeas, row, evalAt, log, ret, view>>
       \/ PetscCallFails

(***************************************************************************)
(* Lines 152-159: the maximum constraint violation.                        *)
(***************************************************************************)
ComputeInfeas ==
    /\ pc = "infeas"
    /\ infeas' = MaxViolation(mem.np_cons)
    /\ pc' = "header"
    /\ UNCHANGED <<fixed, ghosts, mem, temps, mma, iter, niter, obj,
                   kkterr_l2, kkterr_linf, x_l1, row, evalAt, log, ret, view>>

(***************************************************************************)
(* PetscFPrintf on a NULL FILE* is undefined: the process dies in fprintf, *)
(* or the call reports an error.                                           *)
(***************************************************************************)
Crash ==
    /\ pc' = "crashed"
    /\ UNCHANGED <<fixed, ghosts, mem, temps, mma, iter, niter, obj,
                   loopLocals, log, ret, view>>

(***************************************************************************)
(* Lines 162-165: the header, every HeaderPeriod iterations.               *)
(***************************************************************************)
HeaderDue_first_only(it) == it = 0
HeaderDue(it) == it % HeaderPeriod = 0
HeaderLine == [kind |-> "header", iter |-> Undef]
DataLine(it) == [kind |-> "data", iter |-> it]

PrintHeader ==
    /\ pc = "header"
    /\ \/ /\ ~HeaderDue(iter)
          /\ pc' = "row"
          /\ UNCHANGED <<fixed, ghosts, mem, temps, mma, iter, niter, obj,
                         loopLocals, log, ret, view>>
       \/ /\ HeaderDue(iter)
          /\ fp = "open"
          /\ log' = Append(log, HeaderLine)
          /\ pc' = "row"
          /\ UNCHANGED <<fixed, ghosts, mem, temps, mma, iter, niter, obj,
                         loopLocals, ret, view>>
       \/ /\ HeaderDue(iter)
          /\ PetscCallFails
       \/ /\ HeaderDue(iter)
          /\ fp = "null"
          /\ Crash

(***************************************************************************)
(* Lines 166-167: the data line of this iteration.                         *)
(***************************************************************************)
FormatRow(it, o, l2, linf, l1, inf) ==
    [iter |-> it, obj |-> o, kkterr_l2 |-> l2, kkterr_linf |-> linf,
     x_l1 |-> l1, infeas |-> inf]

PrintRow ==
    /\ pc = "row"
    /\ \/ /\ fp = "open"
          /\ row' = FormatRow(iter, obj, kkterr_l2, kkterr_linf, x_l1, infeas)
          /\ log' = Append(log, DataLine(iter))
          /\ pc' = "fflush"
          /\ UNCHANGED <<fixed, ghosts, mem, temps, mma, iter, niter, obj,
                         kkterr_l2, kkterr_linf, x_l1, infeas, evalAt, ret, view>>
       \/ PetscCallFails

(***************************************************************************)
(* Lines 168-171: fflush(fp); iter++; the locals of the body go out of     *)
(* scope.                                                                  *)
(***************************************************************************)
FlushAndIncrement ==
    /\ pc = "fflush"
    /\ iter' = iter + 1
    /\ row' = NoRow
    /\ kkterr_l2' = Undef
    /\ kkterr_linf' = Undef
    /\ x_l1' = Undef
    /\ infeas' = Undef
    /\ evalAt' = <<>>
    /\ pc' = "loop"
    /\ UNCHANGED <<fixed, ghosts, mem, temps, mma, niter, obj, log, ret, view>>

(***************************************************************************)
(* Lines 173-174: PetscCall(VecDestroy(&lb_temp)), then ub_temp.           *)
(***************************************************************************)
DestroyLbTemp ==
    /\ pc = "destroy_lb"
    /\ \/ /\ lb_temp' = NoVec
          /\ live' = live \ {"lb_temp"}
          /\ mem' = [mem EXCEPT !.lb_temp = <<>>]
          /\ pc' = "destroy_ub"
          /\ UNCHANGED <<fixed, ghosts, ub_temp, leaked, mma, iter, niter,
                         obj, loopLocals, log, ret, view>>
       \/ PetscCallFails

DestroyUbTemp ==
    /\ pc = "destroy_ub"
    /\ \/ /\ ub_temp' = NoVec
          /\ live' = live \ {"ub_temp"}
          /\ mem' = [mem EXCEPT !.ub_temp = <<>>]
          /\ pc' = "return"
          /\ UNCHANGED <<fixed, ghosts, lb_temp, leaked, mma, iter, niter,
                         obj, loopLocals, log, ret, view>>
       \/ PetscCallFails

(***************************************************************************)
(* Line 176: return 0.                                                     *)
(***************************************************************************)
Return ==
    /\ pc = "return"
    /\ Leave("ok")
    /\ UNCHANGED <<fixed, ghosts, niter, obj, log, view>>

(***************************************************************************)
(* Line 179: the caller asks for the design between two calls.             *)
(***************************************************************************)
GetOptimizedDesign ==
    /\ pc = "idle"
    /\ dtor = NotDestroyed
    /\ view' = getOptimizedDesign
    /\ UNCHANGED <<fixed, ghosts, mem, temps, mma, pc, iter, niter, obj,
                   loopLocals, log, ret>>

Next ==
    \/ OptimizeBegin
    \/ GetVarsAndBounds
    \/ AllocateLbTemp
    \/ AllocateUbTemp
    \/ InitTempBounds
    \/ ConstructMMA
    \/ LoopTest
    \/ EvalObjCon
    \/ EvalObjConGrad
    \/ SetMoveLimits
    \/ Update
    \/ KKTresidual
    \/ VecNorm
    \/ ComputeInfeas
    \/ PrintHeader
    \/ PrintRow
    \/ FlushAndIncrement
    \/ DestroyLbTemp
    \/ DestroyUbTemp
    \/ Return
    \/ GetOptimizedDesign

Spec == Init /\ [][Next]_vars

(***************************************************************************)
(* The log scenarios: one long call on the smallest problem.               *)
(***************************************************************************)
InitLog ==
    \E handle \in {"open", "null"}, u \in UninitVals :
        Construct(1, 0, handle, u, 1, MaxLogIter, {})

SpecLog == InitLog /\ [][Next]_vars

(***************************************************************************)
(* Termination scenarios: one call with niter up to MaxIter.  optimize is  *)
(* sequential code: a call that is running takes its next step.            *)
(***************************************************************************)
InitTerm ==
    \E d \in Dims, handle \in {"open", "null"}, u \in UninitVals :
        Construct(d[1], d[2], handle, u, 1, MaxIter, {})

SpecTerm == InitTerm /\ [][Next]_vars /\ WF_vars(Next)

-----------------------------------------------------------------------------
(***************************************************************************)
(* Optimizer::~Optimizer (lines 77-93).  The statements of the body in     *)
(* program order, then the destruction of the members, which releases the  *)
(* numpy buffers the Optimizer holds.                                      *)
(***************************************************************************)
DestructorOrder_members_first ==
    <<"members", "fclose", "x", "g", "lb", "ub", "gcon", "delete">>
DestructorOrder ==
    <<"fclose", "x", "g", "lb", "ub", "gcon", "delete", "members">>

DtorAt ==
    IF dtor.step \in 1..Len(DestructorOrder) THEN DestructorOrder[dtor.step]
    ELSE "none"
DtorDone == dtor.step > Len(DestructorOrder)
DtorAdvance == [step |-> dtor.step + 1, i |-> 0]

BindingVec(b) ==
    CASE b.vec = "x" -> x
      [] b.vec = "g" -> g
      [] b.vec = "lb" -> lb
      [] b.vec = "ub" -> ub
      [] OTHER -> gcon[b.i]
Backing(b) == BindingVec(b).array

dtorFrame == <<members, mem, temps, mma, iter, niter, obj, loopLocals, ghosts,
               log, ret, view>>

(* VecDestroy of a binding: the Vec is gone, the array placed under it by *)
(* VecPlaceArray stays with its owner.                                    *)
VecDestroy(b) ==
    /\ alive' = alive \ {b}
    /\ destroyed' = [destroyed EXCEPT ![b] = @ + 1]
    /\ UNCHANGED buffers

(* PetscCallAbort: MPI_Abort ends the process. *)
PetscCallAbortFails ==
    /\ pc' = "crashed"
    /\ UNCHANGED <<dtorFrame, fp, dtor, alive, destroyed, buffers>>

(* The owner destroys the Optimizer while no call is running. *)
DestroyBegin ==
    /\ pc = "idle"
    /\ dtor = NotDestroyed
    /\ dtor' = DtorAdvance
    /\ UNCHANGED <<dtorFrame, fp, pc, alive, destroyed, buffers>>

(* Line 79: std::fclose(fp).  With fp null the call is undefined: the     *)
(* process dies in fclose, or the call returns.                           *)
CloseLog ==
    /\ pc = "idle"
    /\ DtorAt = "fclose"
    /\ \/ /\ fp = "open"
          /\ fp' = "closed"
          /\ dtor' = DtorAdvance
          /\ UNCHANGED pc
       \/ /\ fp = "null"
          /\ \/ pc' = "crashed" /\ UNCHANGED dtor
             \/ dtor' = DtorAdvance /\ UNCHANGED pc
          /\ UNCHANGED fp
    /\ UNCHANGED <<dtorFrame, alive, destroyed, buffers>>

(* Lines 84-87: PetscCallAbort(comm, VecDestroy(&x)), then g, lb, ub. *)
DestroyBinding ==
    /\ pc = "idle"
    /\ DtorAt \in {"x", "g", "lb", "ub"}
    /\ \/ /\ VecDestroy([vec |-> DtorAt, i |-> 0])
          /\ dtor' = DtorAdvance
          /\ UNCHANGED <<dtorFrame, fp, pc>>
       \/ PetscCallAbortFails

(* Lines 88-90: for (i < ncons) PetscCallAbort(comm, VecDestroy(&gcon[i])). *)
DestroyGconRow ==
    /\ pc = "idle"
    /\ DtorAt = "gcon"
    /\ \/ /\ dtor.i < ncons
          /\ VecDestroy([vec |-> "gcon", i |-> dtor.i + 1])
          /\ dtor' = [dtor EXCEPT !.i = @ + 1]
          /\ UNCHANGED <<dtorFrame, fp, pc>>
       \/ /\ dtor.i < ncons
          /\ PetscCallAbortFails
       \/ /\ dtor.i >= ncons
          /\ dtor' = DtorAdvance
          /\ UNCHANGED <<dtorFrame, fp, pc, alive, destroyed, buffers>>

(* Line 92: delete[] gcon frees the array of Vec handles, which nothing   *)
(* reads afterwards; no buffer is involved.                               *)
DeleteGcon ==
    /\ pc = "idle"
    /\ DtorAt = "delete"
    /\ dtor' = DtorAdvance
    /\ UNCHANGED <<dtorFrame, fp, pc, alive, destroyed, buffers>>

(* Line 93: after the body the members are destroyed.  Each ndarray_t     *)
(* member drops its reference; a buffer a caller still refers to through  *)
(* getOptimizedDesign stays allocated, every other one is released.       *)
ReleaseMembers ==
    /\ pc = "idle"
    /\ DtorAt = "members"
    /\ buffers' = buffers \cap (IF view = "none" THEN {} ELSE {view})
    /\ dtor' = DtorAdvance
    /\ UNCHANGED <<dtorFrame, fp, pc, alive, destroyed>>

(***************************************************************************)
(* The whole life of one Optimizer: construction, at most one short call,  *)
(* getOptimizedDesign, destruction.                                        *)
(***************************************************************************)
InitLife ==
    \E d \in Dims, handle \in {"open", "null"}, u \in UninitVals :
        Construct(d[1], d[2], handle, u, 1, 1, {})

NextLife ==
    \/ Next
    \/ DestroyBegin
    \/ CloseLog
    \/ DestroyBinding
    \/ DestroyGconRow
    \/ DeleteGcon
    \/ ReleaseMembers

SpecLife == InitLife /\ [][NextLife]_vars

-----------------------------------------------------------------------------
(***************************************************************************)
(* The rank scenarios: NRanks processes run the same optimize(niter) call  *)
(* on one communicator.  Only the control flow of each rank is kept.  An   *)
(* operation that is collective on the communicator completes when every   *)
(* rank has reached the same call of it; every other step is taken by a    *)
(* rank on its own.                                                        *)
(***************************************************************************)
Ranks == 0..(NRanks - 1)

(* The steps of optimize, in program order, with the lines they model. *)
Collectives_before_loop ==
    {"alloc_lb", "alloc_ub", "mma", "destroy_lb", "destroy_ub"}
Collectives ==
    {"alloc_lb", "alloc_ub",        \* 109-110  VecCreate on comm
     "mma",                         \* 128      MMA constructor
     "Update", "KKTresidual",       \* 141-146  solver, global reductions
     "VecNorm",                     \* 150      VecNorm, a reduction
     "destroy_lb", "destroy_ub"}    \* 173-174  VecDestroy
Checked ==                          \* wrapped in PetscCall: return ierr on error
    {"alloc_lb", "alloc_ub", "init_bounds", "SetOuterMovelimit", "VecNorm",
     "header", "row", "destroy_lb", "destroy_ub"}
Callbacks == {"getVarsAndBounds", "evalObjCon", "evalObjConGrad"}   \* may throw

IsCollective(site) == site \in Collectives

(* PetscFPrintf prints on rank 0 only: on the other ranks it cannot fail. *)
CanFailOn(site, r) ==
    /\ site \in Checked
    /\ site \in {"header", "row"} => r = 0

NextSite(site, it, n) ==
    CASE site = "getVarsAndBounds" -> "alloc_lb"
      [] site = "alloc_lb" -> "alloc_ub"
      [] site = "alloc_ub" -> "init_bounds"
      [] site = "init_bounds" -> "mma"
      [] site = "mma" -> "loop"
      [] site = "loop" -> IF LoopCond(it, n) THEN "evalObjCon" ELSE "destroy_lb"
      [] site = "evalObjCon" -> "evalObjConGrad"
      [] site = "evalObjConGrad" -> "SetOuterMovelimit"
      [] site = "SetOuterMovelimit" -> "Update"
      [] site = "Update" -> "KKTresidual"
      [] site = "KKTresidual" -> "VecNorm"
      [] site = "VecNorm" -> "infeas"
      [] site = "infeas" -> "header"
      [] site = "header" -> "row"
      [] site = "row" -> "fflush"
      [] site = "fflush" -> "loop"
      [] site = "destroy_lb" -> "destroy_ub"
      [] site = "destroy_ub" -> "return"
      [] OTHER -> "idle"

(* Lines 163-167: the records PetscFPrintf(comm, fp, ...) writes at a site *)
(* on rank r: it prints on the first rank of comm only.                   *)
Prints(site, it, r) ==
    IF r = 0 /\ (site = "row" \/ (site = "header" /\ HeaderDue(it))) THEN 1 ELSE 0

Advance(st, n, r) ==
    [st EXCEPT !.pc = NextSite(st.pc, st.iter, n),
               !.iter = IF st.pc = "fflush" THEN st.iter + 1 ELSE st.iter,
               !.ret = IF st.pc = "return" THEN "ok" ELSE st.ret,
               !.writes = @ + Prints(st.pc, st.iter, r),
               !.updates = IF st.pc = "Update" THEN @ + 1 ELSE @]
Abort(st, status) == [st EXCEPT !.pc = "idle", !.ret = status]

InitRanks == \E n \in 0..MaxIter : Construct(1, 0, "open", 0, 0, n, Ranks)

rankFrame == <<nvars_l, ncons, fp, caller, mem, x, g, lb, ub, gcon, lb_temp,
               ub_temp, live, leaked, mma, pc, iter, niter, obj, kkterr_l2,
               kkterr_linf, x_l1, infeas, ierr_mma, row, log, mark, ret, view,
               ncalls, ncall, written, updated, evalAt, x_before, dtor, alive,
               destroyed, buffers>>

(* Lines 36-75: the process of rank r constructs its Optimizer; line 39   *)
(* opens log_name with mode "w+" on every rank, which creates or          *)
(* truncates the file.                                                    *)
RankConstruct(r) ==
    /\ rank[r].pc = "new"
    /\ rank' = [rank EXCEPT ![r].pc = "idle", ![r].opened = TRUE]
    /\ UNCHANGED rankFrame

(* Lines 95-102: rank r enters optimize(caller.niter). *)
RankBegin(r) ==
    /\ rank[r].pc = "idle"
    /\ rank[r].ret = "none"
    /\ rank' = [rank EXCEPT ![r].pc = "getVarsAndBounds", ![r].ret = "running"]
    /\ UNCHANGED rankFrame

(* A step that involves no other rank. *)
RankLocalStep(r) ==
    /\ rank[r].pc \notin {"new", "idle"} \cup Collectives
    /\ rank' = [rank EXCEPT ![r] = Advance(@, caller.niter, r)]
    /\ UNCHANGED rankFrame

(* PetscCall sees an error on rank r alone and returns it (lines 116-125, *)
(* 138, 163-167).                                                         *)
RankLocalError(r) ==
    /\ rank[r].pc \notin Collectives
    /\ CanFailOn(rank[r].pc, r)
    /\ rank' = [rank EXCEPT ![r] = Abort(@, "error")]
    /\ UNCHANGED rankFrame

(* The evaluator of rank r throws (lines 105, 134, 135). *)
RankThrows(r) ==
    /\ rank[r].pc \in Callbacks
    /\ rank' = [rank EXCEPT ![r] = Abort(@, "exception")]
    /\ UNCHANGED rankFrame

(* A collective operation completes once every rank is in the same call. *)
AllAt(site, it) == \A r \in Ranks : rank[r].pc = site /\ rank[r].iter = it

RankCollective ==
    /\ \E site \in Collectives, it \in 0..MaxIter : AllAt(site, it)
    /\ rank' = [r \in Ranks |-> Advance(rank[r], caller.niter, r)]
    /\ UNCHANGED rankFrame

(* A collective operation fails, on every rank alike. *)
RankCollectiveError ==
    /\ \E site \in Collectives \cap Checked, it \in 0..MaxIter : AllAt(site, it)
    /\ rank' = [r \in Ranks |-> Abort(rank[r], "error")]
    /\ UNCHANGED rankFrame

NextRanks ==
    \/ \E r \in Ranks : RankConstruct(r)
    \/ \E r \in Ranks : RankBegin(r)
    \/ \E r \in Ranks : RankLocalStep(r)
    \/ \E r \in Ranks : RankLocalError(r)
    \/ \E r \in Ranks : RankThrows(r)
    \/ RankCollective
    \/ RankCollectiveError

SpecRanks == InitRanks /\ [][NextRanks]_vars

-----------------------------------------------------------------------------
(***************************************************************************)
(* Properties.                                                             *)
(***************************************************************************)
Design == mem[getOptimizedDesign]      \* what a caller of getOptimizedDesign sees
Returned(status) == pc = "idle" /\ ret = status
Aborted == pc = "idle" /\ ret \in {"error", "exception"}

(* C1, as stated: optimize(0) makes no call at all into the Problem        *)
(* Evaluator or the Subproblem Solver, and the design buffer after the     *)
(* call is what it was before the call.                                    *)
C1_NoCallDesignUntouched ==
    (Returned("ok") /\ niter = 0) => (ncalls = NoCalls /\ Design = x_before)

(* C1, amended: optimize(0) calls getVarsAndBounds once and makes no       *)
(* evalObjCon, evalObjConGrad, SetOuterMovelimit, Update or KKTresidual    *)
(* call; the design seen afterwards is the initial design that             *)
(* getVarsAndBounds wrote, untouched by any update.                        *)
C1_ZeroIterationsLoadInitialDesign ==
    (Returned("ok") /\ niter = 0) =>
        /\ ncalls = [NoCalls EXCEPT !.getVarsAndBounds = 1]
        /\ written.by = "getVarsAndBounds"
        /\ Design = written.val

C1_Witness ==
    /\ Returned("ok")
    /\ niter = 0
    /\ ncall = 1
    /\ Design # x_before

(* C2, as stated: the first iteration of a second optimize call evaluates  *)
(* at the design left by the last update of the first call.                *)
C2_SecondCallContinues ==
    (ncall >= 2 /\ iter = 0 /\ pc = "evalObjConGrad" /\ updated # <<>>) =>
        evalAt = updated

(* C2, amended: the first iteration of a second optimize call evaluates    *)
(* the objective, constraints and gradients at the design that the second  *)
(* call's own getVarsAndBounds wrote into the aliased buffer.              *)
C2_SecondCallStartsFromInitialDesign ==
    (ncall >= 2 /\ iter = 0 /\ pc \in {"evalObjConGrad", "SetOuterMovelimit"}) =>
        /\ written.by = "getVarsAndBounds"
        /\ evalAt = written.val
        /\ VecGetArray(mem, x) = written.val

C2_Witness ==
    /\ ncall = 2
    /\ iter = 0
    /\ pc = "SetOuterMovelimit"
    /\ updated # <<>>
    /\ evalAt # updated

(* C3: once Update or KKTresidual has failed, the call has stopped and     *)
(* returned a non-success status.                                          *)
C3_SolverFailureIsFatal ==
    ierr_mma = "error" => Returned("error")

(* C4: whenever optimize has returned, every temporary Vec it allocated    *)
(* has been destroyed.                                                     *)
C4_TemporariesDestroyed ==
    pc = "idle" => leaked = 0

(* C5: no rank has left optimize with an error while another rank waits    *)
(* in a collective operation.                                              *)
C5_NoRankLeftBehind ==
    \A r1, r2 \in DOMAIN rank :
        ~ /\ rank[r1].pc = "idle"
          /\ rank[r1].ret \in {"error", "exception"}
          /\ IsCollective(rank[r2].pc)

(* C6: the temporary bounds handed to Update and KKTresidual lie inside    *)
(* the permanent bounds, and are the move-limit box around the design of   *)
(* this iteration: lb_temp = max(lb, x - (ub - lb)/5) and                  *)
(* ub_temp = min(ub, x + (ub - lb)/5), element by element.                 *)
C6_MoveLimitsInsideBounds ==
    pc \in {"Update", "KKTresidual"} =>
        LET lo == VecGetArray(mem, lb)
            hi == VecGetArray(mem, ub)
            lt == VecGetArray(mem, lb_temp)
            ut == VecGetArray(mem, ub_temp)
        IN  \A i \in 1..nvars_l :
                /\ lo[i] <= lt[i]
                /\ ut[i] <= hi[i]
                /\ 5 * lt[i] >= 5 * evalAt[i] - (hi[i] - lo[i])
                /\ 5 * ut[i] <= 5 * evalAt[i] + (hi[i] - lo[i])
                /\ lt[i] = lo[i] \/ 5 * lt[i] = 5 * evalAt[i] - (hi[i] - lo[i])
                /\ ut[i] = hi[i] \/ 5 * ut[i] = 5 * evalAt[i] + (hi[i] - lo[i])

C6_Witness ==
    /\ pc = "KKTresidual"
    /\ iter >= 1
    /\ \E i \in 1..nvars_l : VecGetArray(mem, lb_temp)[i] > VecGetArray(mem, lb)[i]
    /\ \E j \in 1..nvars_l : VecGetArray(mem, ub_temp)[j] < VecGetArray(mem, ub)[j]

(* C7: the violation written in a data line is max(0, max of the           *)
(* constraint values of the iteration): never negative, 0 exactly when no  *)
(* constraint is positive, else the largest constraint value.              *)
C7_InfeasIsMaxViolation ==
    row # NoRow =>
        LET vals == {mem.np_cons[i] : i \in 1..ncons} \cup {0}
        IN  /\ row.infeas \in vals
            /\ \A v \in vals : v <= row.infeas
            /\ row.infeas >= 0
            /\ row.infeas = 0 <=> \A i \in 1..ncons : mem.np_cons[i] <= 0

C7_Witness ==
    /\ row # NoRow
    /\ ncons >= 2
    /\ row.infeas > 0
    /\ mem.np_cons[ncons] < 0

(* C8: a call that returns success has appended exactly the data lines     *)
(* 0 .. niter-1, in order, each line whose index is a multiple of 10       *)
(* preceded by a header, and no other header.                              *)
RECURSIVE ExpectedLog(_, _)
ExpectedLog(k, n) ==
    IF k >= n THEN <<>>
    ELSE (IF k % 10 = 0 THEN <<[kind |-> "header", iter |-> Undef]>> ELSE <<>>)
         \o <<[kind |-> "data", iter |-> k]>> \o ExpectedLog(k + 1, n)

C8_LogOfSuccessfulCall ==
    Returned("ok") => SubSeq(log, mark + 1, Len(log)) = ExpectedLog(0, niter)

C8_Witness ==
    /\ Returned("ok")
    /\ niter = 11
    /\ Len(log) = 13
    /\ log[12].kind = "header"

(* C9: after a call that aborted, the design buffer holds the last design  *)
(* written into it: that of the last Update that wrote, else the initial   *)
(* design of getVarsAndBounds; nothing is rolled back.                     *)
C9_AbortKeepsLastDesign ==
    Aborted =>
        /\ written.by # "none" => Design = written.val
        /\ ncalls.Update = 0 /\ ncalls.getVarsAndBounds = 1
               => written.by = "getVarsAndBounds"

C9_Witness ==
    /\ Returned("error")
    /\ ncalls.evalObjCon = 2
    /\ ncalls.Update = 1
    /\ written.by = "Update"
    /\ Design = updated
    /\ Design # mem.np_lb

(* C10, as stated: the design seen through a returned reference is always  *)
(* the x left by the most recent solver update.                            *)
C10_DesignIsLastUpdate ==
    (view # "none" /\ pc = "idle" /\ updated # <<>>) => mem[view] = updated

(* C10, amended: the returned reference is the buffer x aliases; what is   *)
(* seen through it is at all times the contents of x, which is the last    *)
(* design written, by an Update or by the getVarsAndBounds of a later      *)
(* call.                                                                   *)
C10_ReferenceSharesBuffer ==
    view # "none" =>
        /\ mem[view] = VecGetArray(mem, x)
        /\ written.by # "none" => mem[view] = written.val

C10_Witness ==
    /\ view # "none"
    /\ pc = "KKTresidual"
    /\ written.by = "Update"
    /\ mem[view] = updated
    /\ mem[view] # x_before

(* C11: no binding is alive while its backing buffer is released; no      *)
(* binding is destroyed twice; no buffer is released before the members    *)
(* are destroyed, so VecDestroy never frees one; and when the destructor   *)
(* has finished every binding has been destroyed exactly once.             *)
C11_BindingsDieBeforeBuffers ==
    /\ \A b \in alive : Backing(b) \in buffers
    /\ \A b \in DOMAIN destroyed : destroyed[b] <= 1
    /\ (alive # {} \/ DtorAt \in {"delete", "members"}) => buffers = Buffers
    /\ DtorDone => /\ alive = {}
                   /\ \A b \in DOMAIN destroyed : destroyed[b] = 1

C11_Witness ==
    /\ DtorDone
    /\ ncons >= 2
    /\ ret = "ok"
    /\ view # "none"
    /\ destroyed[[vec |-> "gcon", i |-> ncons]] = 1
    /\ buffers = {view}

(* C12: an Optimizer whose log could not be opened is never used: no       *)
(* optimize call is about to print to a null handle or has died printing   *)
(* to it, and the destructor never passes a null handle to fclose.         *)
C12_NoUseOfUnopenedLog ==
    fp = "null" =>
        /\ ~(pc = "header" /\ HeaderDue(iter))
        /\ pc # "crashed"
        /\ DtorAt # "fclose"

(* C13: no rank other than the coordinating rank 0 has opened the log for  *)
(* writing (which truncates it) or has written a record to it.             *)
C13_OnlyRankZeroTouchesLog ==
    \A r \in DOMAIN rank :
        r # 0 => (~rank[r].opened /\ rank[r].writes = 0)

(* C14: each rank goes through the steps of an iteration in the order      *)
(* evalObjCon, evalObjConGrad, SetOuterMovelimit, Update, KKTresidual,     *)
(* VecNorm, infeas, header, data line, fflush, leaving it only by          *)
(* returning; and a rank is inside iteration k only when every rank has    *)
(* completed k Updates, those of iterations 0 .. k-1.                      *)
IterationOrder ==
    <<"evalObjCon", "evalObjConGrad", "SetOuterMovelimit", "Update",
      "KKTresidual", "VecNorm", "infeas", "header", "row", "fflush", "loop">>

C14_StepsInOrderNoOverlap ==
    /\ [](\A r1, r2 \in DOMAIN rank :
            (\E k \in 1..(Len(IterationOrder) - 1) : rank[r1].pc = IterationOrder[k])
                => rank[r2].updates >= rank[r1].iter)
    /\ [][\A r \in DOMAIN rank : \A k \in 1..(Len(IterationOrder) - 1) :
            (rank[r].pc = IterationOrder[k] /\ rank'[r].pc \notin {rank[r].pc, "idle"})
                => /\ rank'[r].pc = IterationOrder[k + 1]
                   /\ rank'[r].updates =
                          rank[r].updates + (IF rank[r].pc = "Update" THEN 1 ELSE 0)
                   /\ rank'[r].iter =
                          rank[r].iter + (IF rank[r].pc = "fflush" THEN 1 ELSE 0)]_vars

C14_Witness ==
    \E r1, r2 \in DOMAIN rank :
        /\ rank[r1].pc = "evalObjConGrad"
        /\ rank[r1].iter = 1
        /\ rank[r2].pc = "fflush"
        /\ rank[r2].iter = 0
        /\ rank[r2].updates = 1

(* C15: every optimize call ends; the loop is left only with iter = niter; *)
(* inside the loop iter < niter; and a call that returns success has made  *)
(* exactly niter calls of each of evalObjCon, evalObjConGrad,              *)
(* SetOuterMovelimit, Update and KKTresidual, whatever the KKT residuals   *)
(* were.  While the call runs, each of the five has been called once per   *)
(* completed iteration and at most once in the current one.                *)
CallsAfter(n) ==
    [getVarsAndBounds |-> 1, evalObjCon |-> n, evalObjConGrad |-> n,
     SetOuterMovelimit |-> n, Update |-> n, KKTresidual |-> n]

C15_ExactlyMaxIterations ==
    /\ [](pc \in {"destroy_lb", "destroy_ub", "return"} =>
              (iter = niter /\ ncalls = CallsAfter(niter)))
    /\ [](Returned("ok") => ncalls = CallsAfter(niter))
    /\ [](pc \in {"evalObjCon", "evalObjConGrad", "SetOuterMovelimit", "Update",
                  "KKTresidual", "VecNorm", "infeas", "header", "row", "fflush"} =>
              /\ iter \in 0..(niter - 1)
              /\ \A f \in {"evalObjCon", "evalObjConGrad", "SetOuterMovelimit",
                           "Update", "KKTresidual"} : ncalls[f] \in {iter, iter + 1}
              /\ pc = "evalObjCon" => ncalls = CallsAfter(iter)
              /\ pc = "fflush" => ncalls = CallsAfter(iter + 1))
    /\ (pc = "getVarsAndBounds") ~> (pc \in {"idle", "crashed"})

C15_Witness ==
    /\ Returned("ok")
    /\ niter = 2
    /\ ierr_mma = "ok"
    /\ ncalls = CallsAfter(2)
    /\ Len(log) = 3

(* C16: gcon[i] aliases exactly the elements [i*n_local, (i+1)*n_local) of *)
(* the Jacobian buffer (rows numbered from 0 in the claim, from 1 here):   *)
(* stride n_local, rows disjoint, every row inside the m*n_local buffer,   *)
(* and what is read through gcon[i] is row i of what the evaluator wrote.  *)
C16_RowsAliasJacobianSlices ==
    LET Slice(i) == (gcon[i].off + 1)..(gcon[i].off + gcon[i].n)
    IN  /\ DOMAIN gcon = 1..ncons
        /\ Len(mem.np_gcon) = ncons * nvars_l
        /\ \A i \in 1..ncons :
              /\ gcon[i].array = "np_gcon"
              /\ Slice(i) = ((i - 1) * nvars_l + 1)..(i * nvars_l)
              /\ Slice(i) \subseteq DOMAIN mem.np_gcon
              /\ \A j \in 1..ncons : i # j => Slice(i) \cap Slice(j) = {}
              /\ \A k \in 1..nvars_l :
                    VecGetArray(mem, gcon[i])[k] = mem.np_gcon[(i - 1) * nvars_l + k]

C16_Witness ==
    /\ pc = "Update"
    /\ ncons >= 2
    /\ nvars_l >= 2
    /\ ncalls.evalObjConGrad = 1
    /\ VecGetArray(mem, gcon[1]) = SubSeq(mem.np_gcon, 1, nvars_l)
    /\ VecGetArray(mem, gcon[2]) = SubSeq(mem.np_gcon, nvars_l + 1, 2 * nvars_l)
    /\ VecGetArray(mem, gcon[1]) # VecGetArray(mem, gcon[2])

(* C17, as stated: for a variable with ub = lb the temporary box handed to *)
(* Update is the single point lb, whatever x is.                           *)
C17_FixedVariableBoxCollapses ==
    pc = "Update" =>
        \A i \in 1..nvars_l :
            VecGetArray(mem, lb)[i] = VecGetArray(mem, ub)[i] =>
                /\ VecGetArray(mem, lb_temp)[i] = VecGetArray(mem, lb)[i]
                /\ VecGetArray(mem, ub_temp)[i] = VecGetArray(mem, lb)[i]

(* C17, amended: for a variable with ub = lb the temporary box is          *)
(* lb_temp = max(lb, x), ub_temp = min(lb, x); it is the single point lb   *)
(* exactly when x = lb, and is inverted otherwise.                         *)
C17_FixedVariableBoxFollowsX ==
    pc = "Update" =>
        LET lo == VecGetArray(mem, lb)
            hi == VecGetArray(mem, ub)
            lt == VecGetArray(mem, lb_temp)
            ut == VecGetArray(mem, ub_temp)
            xs == VecGetArray(mem, x)
        IN  \A i \in 1..nvars_l :
                lo[i] = hi[i] =>
                    /\ lt[i] = (IF xs[i] > lo[i] THEN xs[i] ELSE lo[i])
                    /\ ut[i] = (IF xs[i] < lo[i] THEN xs[i] ELSE lo[i])
                    /\ (lt[i] = lo[i] /\ ut[i] = lo[i]) <=> xs[i] = lo[i]
                    /\ xs[i] # lo[i] => lt[i] > ut[i]

C17_Witness ==
    /\ pc = "Update"
    /\ iter = 1
    /\ \E i \in 1..nvars_l :
          /\ VecGetArray(mem, lb)[i] = VecGetArray(mem, ub)[i]
          /\ VecGetArray(mem, x)[i] = VecGetArray(mem, lb)[i]
          /\ VecGetArray(mem, lb_temp)[i] = VecGetArray(mem, lb)[i]
          /\ VecGetArray(mem, ub_temp)[i] = VecGetArray(mem, lb)[i]

(* C20: for every variable whose value lies inside its permanent bounds    *)
(* when the move limits are set, the temporary box handed to Update        *)
(* contains that value: lb_temp <= x <= ub_temp.                           *)
C20_BoxContainsFeasibleIterate ==
    pc = "Update" =>
        LET lo == VecGetArray(mem, lb)
            hi == VecGetArray(mem, ub)
            lt == VecGetArray(mem, lb_temp)
            ut == VecGetArray(mem, ub_temp)
            xs == VecGetArray(mem, x)
        IN  \A i \in 1..nvars_l :
                (lo[i] <= xs[i] /\ xs[i] <= hi[i]) =>
                    (lt[i] <= xs[i] /\ xs[i] <= ut[i])

(* In the first iteration, with the initial design of the evaluator: one   *)
(* variable inside its bounds and strictly inside its box, another outside *)
(* its bounds with an inverted box.                                        *)
C20_Witness ==
    /\ pc = "Update"
    /\ ncalls.Update = 0
    /\ written.by = "getVarsAndBounds"
    /\ \E i, j \in 1..nvars_l :
          /\ VecGetArray(mem, lb)[i] <= VecGetArray(mem, x)[i]
          /\ VecGetArray(mem, x)[i] <= VecGetArray(mem, ub)[i]
          /\ VecGetArray(mem, lb_temp)[i] < VecGetArray(mem, x)[i]
          /\ VecGetArray(mem, x)[j] > VecGetArray(mem, ub)[j]
          /\ VecGetArray(mem, lb_temp)[j] > VecGetArray(mem, ub_temp)[j]

(* C18: before the first optimize call every element of the buffers x,     *)
(* lb, ub, g, cons and gcon is 0, and so is the design seen through        *)
(* getOptimizedDesign.                                                     *)
C18_BuffersZeroAfterConstruction ==
    ncall = 0 =>
        /\ \A b \in Buffers : \A i \in DOMAIN mem[b] : mem[b][i] = 0
        /\ view # "none" => mem[view] = Const(nvars_l, 0)

(* C19: in the data line of iteration k the objective and the violation    *)
(* are those of the one evaluation of the iteration, made at the design    *)
(* before the Update, while the L1 norm is that of the design after the    *)
(* Update and the KKT residuals are what the KKTresidual call made after   *)
(* the Update left; no evaluator call lies between the Update and the      *)
(* line.                                                                   *)
C19_RowMixesDesignsAroundUpdate ==
    row # NoRow =>
        /\ row.iter = iter
        /\ ncalls.evalObjCon = iter + 1
        /\ ncalls.evalObjConGrad = iter + 1
        /\ ncalls.Update = iter + 1
        /\ ncalls.KKTresidual = iter + 1
        /\ row.obj = obj
        /\ row.infeas = MaxViolation(mem.np_cons)
        /\ row.x_l1 = SumAbs(VecGetArray(mem, x))
        /\ row.kkterr_l2 = kkterr_l2
        /\ row.kkterr_linf = kkterr_linf
        /\ ierr_mma = "ok" => <<row.kkterr_l2, row.kkterr_linf>> \in KKTPairs
        /\ \/ VecGetArray(mem, x) = evalAt
           \/ /\ written.by = "Update"
              /\ x_before = evalAt
              /\ VecGetArray(mem, x) = written.val

C19_Witness ==
    /\ row # NoRow
    /\ ierr_mma = "ok"
    /\ iter = 1
    /\ VecGetArray(mem, x) # evalAt
    /\ row.x_l1 = SumAbs(VecGetArray(mem, x))
    /\ row.x_l1 # SumAbs(evalAt)
    /\ row.infeas > 0

=============================================================================
